---- MODULE Spec2Model ----
(***************************************************************************)
(* Model of the sport prediction service (ai/service.py, ai/training.py):  *)
(* the per-sport files under data/ and models/, the in-memory `state`      *)
(* dictionary, the boot sequence and the request handlers.                 *)
(*                                                                         *)
(* A dataset is abstracted to the number of rows of each outcome label; a  *)
(* fitted pipeline to its preprocessing step, its classifier, its label    *)
(* set and the dataset it was fitted on (training is seeded, so the same   *)
(* algorithm on the same dataset gives the same pipeline).  Probabilities  *)
(* are integer numerators over a denominator carried by the response.      *)
(***************************************************************************)
EXTENDS Integers, FiniteSets, Sequences, TLC

\* ------------------------------------------------------------------ bounds
MaxClassRows == 4
ProbSteps == 2

\* --------------------------------------------------------------- constants
SPORTS == {"football"}

Labels == {"away_win", "draw", "home_win"}

\* classes_ of a fitted scikit-learn classifier is sorted
LabelOrder == <<"away_win", "draw", "home_win">>

\* values of the `algo` form field and of ModelSelectRequest.model
AlgoInputs == {"logistic", "rf", "svm"}

\* uploaded / ingested / legacy datasets, by rows per outcome label
Datasets ==
    { [home_win |-> MaxClassRows, draw |-> d, away_win |-> MaxClassRows] :
        d \in {0, 1, MaxClassRows, MaxClassRows + 1} }

\* ------------------------------------------------------------ file contents
Absent == [kind |-> "absent"]
BadJson == [kind |-> "badjson"]
BadBytes == [kind |-> "badbytes"]
Csv(d) == [kind |-> "csv", rows |-> d]
Blob(p) == [kind |-> "joblib", obj |-> p]
Json(v) == [kind |-> "json", value |-> v]

None == [t |-> "None"]

SelectorDoc(name) == [t |-> "selector", model |-> name]
ObjectNoModelKey == [t |-> "object"]
NonObject == [t |-> "array"]

\* --------------------------------------------------------------- training.py
NRows(d) == d.home_win + d.draw + d.away_win

LabelSet(d) == {c \in Labels : d[c] > 0}

\* train_test_split(test_size=0.25, stratify=y): n_test = ceil(n/4)
NTest(d) == (NRows(d) + 3) \div 4

NTrain(d) == NRows(d) - NTest(d)

SplitRaises(d) ==
    \/ \E c \in LabelSet(d) : d[c] < 2
    \/ NTest(d) < Cardinality(LabelSet(d))
    \/ NTrain(d) < Cardinality(LabelSet(d))

\* fit / log_loss / roc_data: a single class cannot be fitted or scored, and
\* label_binarize gives one column for two classes, which roc_data indexes
\* with idx = 1
EvalRaises(d) == Cardinality(LabelSet(d)) < 3

build_preprocessor(algo) == IF algo = "logistic" THEN "scale" ELSE "pass"

build_model(algo) == IF algo = "rf" THEN "rf" ELSE "logistic"

Pipeline(d, algo) ==
    [t |-> "pipeline", prep |-> build_preprocessor(algo), clf |-> build_model(algo),
     classes |-> LabelSet(d), fit_on |-> d]

MetricsReport(d, algo) ==
    [t |-> "metrics", classes |-> LabelSet(d), rows |-> NRows(d), model |-> algo,
     fit_on |-> d]

\* mutant: the split is not stratified, so a class of one row does not stop it
TrainModelRaises_unstratified(fs) ==
    \/ fs.data.kind # "csv"
    \/ EvalRaises(fs.data.rows)

TrainModelRaises(fs) ==
    \/ fs.data.kind # "csv"
    \/ SplitRaises(fs.data.rows)
    \/ EvalRaises(fs.data.rows)

\* train_model(data_path, model_path, metrics_path, algo): the files after it
train_model(fs, model_path, metrics_path, algo) ==
    IF TrainModelRaises(fs) THEN fs
    ELSE [fs EXCEPT ![model_path] = Blob(Pipeline(fs.data.rows, algo)),
                    ![metrics_path] = Json(MetricsReport(fs.data.rows, algo))]

\* compare = {"logistic": metrics_logistic, "rf": metrics_rf}
CompareDoc(d) ==
    [t |-> "compare",
     entries |-> [logistic |-> MetricsReport(d, "logistic"),
                  rf |-> MetricsReport(d, "rf")]]

\* mutant: the combined document is never written, so out_path keeps the
\* report of the second run
train_compare_no_combined(fs) ==
    IF TrainModelRaises(fs) THEN fs
    ELSE train_model(train_model(fs, "logistic", "compare", "logistic"),
                     "rf", "compare", "rf")

\* train_compare(data_path, out_path, logistic_path, rf_path)
train_compare(fs) ==
    IF TrainModelRaises(fs) THEN fs
    ELSE LET f1 == train_model(fs, "logistic", "compare", "logistic")
             f2 == train_model(f1, "rf", "compare", "rf")
         IN  [f2 EXCEPT !.compare = Json(CompareDoc(fs.data.rows))]

\* ---------------------------------------------------------------- service.py
\* generate_dataset: 220 or 260 seeded rows with all three outcomes
GeneratedData ==
    [home_win |-> MaxClassRows, draw |-> MaxClassRows, away_win |-> MaxClassRows]

\* data/matches.csv as written by an earlier ingest
LegacyData ==
    [home_win |-> MaxClassRows, draw |-> MaxClassRows + 1, away_win |-> MaxClassRows]

Exists(f) == f.kind # "absent"

\* ensure_data_for_sport(sport): the data file after it
ensure_data_for_sport(fs, sport, legacy_file) ==
    IF Exists(fs.data) THEN fs
    ELSE IF sport = "football" /\ Exists(legacy_file)
         THEN [fs EXCEPT !.data = legacy_file]
         ELSE [fs EXCEPT !.data = Csv(GeneratedData)]

\* read_json catches json.JSONDecodeError only: bytes that are not UTF-8 make
\* path.read_text raise UnicodeDecodeError
ReadJsonRaises(f) == f.kind = "badbytes"

read_json(f) == IF f.kind = "json" THEN f.value ELSE None

write_json(fs, path, payload) == [fs EXCEPT ![path] = Json(payload)]

\* the module-level `state` entry of one sport
InitialState ==
    [active_model |-> "logistic", model |-> None, metrics_cache |-> None,
     compare_cache |-> None]

\* load_active: active.get("model", "logistic") if active else "logistic"
LoadActiveRaises(w) ==
    \/ ReadJsonRaises(w.fs.active)
    \/ read_json(w.fs.active).t = "array"

load_active(w) ==
    LET active == read_json(w.fs.active)
    IN  [w EXCEPT !.st.active_model =
            IF active.t = "selector" THEN active.model ELSE "logistic"]

write_active(w, name) ==
    [fs |-> write_json(w.fs, "active", SelectorDoc(name)),
     st |-> [w.st EXCEPT !.active_model = name]]

ModelPath(w) ==
    LET model_path == IF w.st.active_model = "logistic" THEN "logistic" ELSE "rf"
    IN  IF Exists(w.fs[model_path]) THEN model_path ELSE "model"

load_model(w) ==
    [w EXCEPT !.st.model =
        IF Exists(w.fs[ModelPath(w)]) THEN w.fs[ModelPath(w)].obj ELSE None]

\* `active in compare` for a parsed comparison document
HasEntry(compare, active) ==
    compare.t = "compare" /\ active \in DOMAIN compare.entries

LoadMetricsRaises(w) ==
    \/ ReadJsonRaises(w.fs.compare)
    \/ /\ ~HasEntry(read_json(w.fs.compare), w.st.active_model)
       /\ ReadJsonRaises(w.fs.metrics)

\* mutant: the comparison document is ignored
load_metrics_single_only(w) ==
    IF LoadMetricsRaises(w) THEN w
    ELSE [w EXCEPT !.st.metrics_cache = read_json(w.fs.metrics)]

load_metrics(w) ==
    LET compare == read_json(w.fs.compare)
        active == w.st.active_model
    IN  IF LoadMetricsRaises(w) THEN w
        ELSE IF HasEntry(compare, active)
        THEN [w EXCEPT !.st.metrics_cache = compare.entries[active]]
        ELSE [w EXCEPT !.st.metrics_cache = read_json(w.fs.metrics)]

LoadCompareRaises(w) == ReadJsonRaises(w.fs.compare)

load_compare(w) ==
    IF LoadCompareRaises(w) THEN w
    ELSE [w EXCEPT !.st.compare_cache = read_json(w.fs.compare)]

BootRaises(w) ==
    \/ LoadActiveRaises(w)
    \/ LoadMetricsRaises(load_model(load_active(w)))
    \/ LoadCompareRaises(w)

\* boot_sport(sport)
boot_sport(w, sport, legacy_file) ==
    LET w0 == [w EXCEPT !.fs = ensure_data_for_sport(w.fs, sport, legacy_file)]
    IN  load_compare(load_metrics(load_model(load_active(w0))))

\* mutant: the requested identifier is stored as given
normalize_algo_unchecked(name) == name

normalize_algo(name) == IF name \in {"logistic", "rf"} THEN name ELSE "logistic"

\* SPORT_BASELINES[sport]: round(mean_a + mean_b, 2), in hundredths
expected_points(sport) == IF sport = "football" THEN 145 + 120 ELSE 200 + 180

Max(a, b) == IF a >= b THEN a ELSE b

\* mutant: equal strengths are declared an away win
fallback_prediction_strict(strengthA, strengthB, sport) ==
    LET prediction == IF strengthA > strengthB THEN "home_win" ELSE "away_win"
        home == IF prediction = "home_win" THEN 58 ELSE 21
        away == IF prediction = "away_win" THEN 58 ELSE 21
        draw == Max(8, 100 - home - away)
    IN  [prediction |-> prediction,
         confidence |-> Max(home, away),
         score |-> strengthA - strengthB,
         probabilities |-> [home_win |-> home, draw |-> draw, away_win |-> away],
         den |-> 100,
         model |-> "fallback-" \o sport,
         sport |-> sport,
         expected_points |-> expected_points(sport)]

\* fallback_prediction(payload, sport); probabilities in hundredths
fallback_prediction(strengthA, strengthB, sport) ==
    LET prediction == IF strengthA >= strengthB THEN "home_win" ELSE "away_win"
        home == IF prediction = "home_win" THEN 58 ELSE 21
        away == IF prediction = "away_win" THEN 58 ELSE 21
        draw == Max(8, 100 - home - away)
    IN  [prediction |-> prediction,
         confidence |-> Max(home, away),
         score |-> strengthA - strengthB,
         probabilities |-> [home_win |-> home, draw |-> draw, away_win |-> away],
         den |-> 100,
         model |-> "fallback-" \o sport,
         sport |-> sport,
         expected_points |-> expected_points(sport)]

\* prob_map.get(label, 0.0)
Get(prob_map, label) == IF label \in DOMAIN prob_map THEN prob_map[label] ELSE 0

\* model.predict_proba(df)[0] zipped with model.classes_: one row summing to 1,
\* as numerators over ProbSteps
ProbMaps(classes) ==
    { p \in [classes -> 0..ProbSteps] :
        Get(p, "away_win") + Get(p, "draw") + Get(p, "home_win") = ProbSteps }

\* max(prob_map, key=prob_map.get): the first key, in classes_ order, of
\* maximum value
FirstMax(prob_map) ==
    LET present == {i \in 1..Len(LabelOrder) : LabelOrder[i] \in DOMAIN prob_map}
        best == CHOOSE i \in present :
                    /\ \A j \in present : prob_map[LabelOrder[j]] <= prob_map[LabelOrder[i]]
                    /\ \A j \in present :
                           j < i => prob_map[LabelOrder[j]] < prob_map[LabelOrder[i]]
    IN  LabelOrder[best]

\* mutant: the score is 0 as soon as one of the two classes is missing
model_prediction_zero_score(prob_map, sport, active_model) ==
    LET prediction == FirstMax(prob_map)
    IN  [sport |-> sport,
         prediction |-> prediction,
         confidence |-> prob_map[prediction],
         score |-> IF {"home_win", "away_win"} \subseteq DOMAIN prob_map
                   THEN prob_map["home_win"] - prob_map["away_win"]
                   ELSE 0,
         probabilities |-> prob_map,
         den |-> ProbSteps,
         model |-> active_model]

\* predict, the branch served by a loaded model
model_prediction(prob_map, sport, active_model) ==
    LET prediction == FirstMax(prob_map)
    IN  [sport |-> sport,
         prediction |-> prediction,
         confidence |-> prob_map[prediction],
         score |-> Get(prob_map, "home_win") - Get(prob_map, "away_win"),
         probabilities |-> prob_map,
         den |-> ProbSteps,
         model |-> active_model]

\* GET /metrics: state[current]["metrics_cache"] or {}
EmptyObject == [t |-> "empty"]

metrics(st) == IF st.metrics_cache = None THEN EmptyObject ELSE st.metrics_cache

\* ------------------------------------------------------------------- state
\* phase, disk, legacy, state, resp: the service; loop: the event loop and the
\* requests in flight; curve: one call of roc_data / pr_data
VARIABLES phase, disk, legacy, state, resp, loop, curve

vars == <<phase, disk, legacy, state, resp, loop, curve>>

\* no request is suspended and none is running
IdleLoop == [current |-> 0, tasks |-> <<>>]

NoCurve == [op |-> "none"]

World(s) == [fs |-> disk[s], st |-> state[s]]

\* artifacts left in models/ by an earlier deployment, fitted on data in which
\* one outcome never occurred
ForeignPipelines ==
    { [t |-> "pipeline", prep |-> "scale", clf |-> "logistic",
       classes |-> LabelSet(d), fit_on |-> d] :
        d \in { [home_win |-> 0, draw |-> MaxClassRows, away_win |-> MaxClassRows],
                [home_win |-> MaxClassRows, draw |-> MaxClassRows, away_win |-> 0] } }

InitSelectorFiles ==
    {Absent, BadJson, BadBytes, Json(NonObject), Json(ObjectNoModelKey)}
        \cup {Json(SelectorDoc(name)) : name \in AlgoInputs}

InitDocFiles == {Absent, BadJson, BadBytes}

Init ==
    /\ phase = "import"
    /\ disk \in [SPORTS ->
                   [data : {Absent},
                    model : {Absent} \cup {Blob(p) : p \in ForeignPipelines},
                    logistic : {Absent},
                    rf : {Absent},
                    metrics : InitDocFiles,
                    compare : InitDocFiles,
                    active : InitSelectorFiles]]
    /\ legacy \in {Absent, Csv(LegacyData)}
    /\ state = [s \in SPORTS |-> InitialState]
    /\ resp = [op |-> "none"]
    /\ loop = IdleLoop
    /\ curve = NoCurve

\* ----------------------------------------------------------------- actions
\* module import: `for _sport in SPORTS: boot_sport(_sport)`; an exception
\* aborts the import and the service does not start
Boot ==
    /\ phase = "import"
    /\ IF \E s \in SPORTS :
             BootRaises([World(s) EXCEPT
                           !.fs = ensure_data_for_sport(disk[s], s, legacy)])
       THEN /\ phase' = "crashed"
            /\ disk' = [s \in SPORTS |-> ensure_data_for_sport(disk[s], s, legacy)]
            /\ resp' = [op |-> "boot", status |-> "error"]
            /\ UNCHANGED state
       ELSE /\ phase' = "ready"
            /\ disk' = [s \in SPORTS |-> boot_sport(World(s), s, legacy).fs]
            /\ state' = [s \in SPORTS |-> boot_sport(World(s), s, legacy).st]
            /\ resp' = [op |-> "boot", status |-> "ok"]
    /\ UNCHANGED <<legacy, loop, curve>>

\* the process is restarted: memory is lost, the files stay
Restart ==
    /\ phase = "ready"
    /\ phase' = "import"
    /\ state' = [s \in SPORTS |-> InitialState]
    /\ resp' = [op |-> "restart"]
    /\ UNCHANGED <<disk, legacy, loop, curve>>

\* GET /model/active
model_active(s) ==
    /\ phase = "ready"
    /\ resp' = [op |-> "active", sport |-> s, status |-> "ok",
                active |-> state[s].active_model]
    /\ UNCHANGED <<phase, disk, legacy, state, loop, curve>>

\* GET /metrics
metrics_endpoint(s) ==
    /\ phase = "ready"
    /\ resp' = [op |-> "metrics", sport |-> s, status |-> "ok",
                body |-> metrics(state[s])]
    /\ UNCHANGED <<phase, disk, legacy, state, loop, curve>>

\* write_active; load_model; load_metrics: the tail shared by model_select,
\* train and train_refresh
Activate(w, name) == load_metrics(load_model(write_active(w, name)))

ActivateRaises(w, name) == LoadMetricsRaises(load_model(write_active(w, name)))

\* POST /model/select
model_select(s, model) ==
    LET name == normalize_algo(model)
        w == Activate(World(s), name)
    IN  /\ phase = "ready"
        /\ disk' = [disk EXCEPT ![s] = w.fs]
        /\ state' = [state EXCEPT ![s] = w.st]
        /\ resp' = IF ActivateRaises(World(s), name)
                   THEN [op |-> "select", sport |-> s, status |-> "error",
                         requested |-> model]
                   ELSE [op |-> "select", sport |-> s, status |-> "ok",
                         requested |-> model, active |-> w.st.active_model]
        /\ UNCHANGED <<phase, legacy, loop, curve>>

\* POST /predict
predict(s, strengthA, strengthB) ==
    /\ phase = "ready"
    /\ IF state[s].model = None
       THEN resp' = [op |-> "predict", sport |-> s, status |-> "ok",
                     strengthA |-> strengthA, strengthB |-> strengthB,
                     body |-> fallback_prediction(strengthA, strengthB, s)]
       ELSE \E prob_map \in ProbMaps(state[s].model.classes) :
                resp' = [op |-> "predict", sport |-> s, status |-> "ok",
                             body |-> model_prediction(prob_map, s, state[s].active_model)]
    /\ UNCHANGED <<phase, disk, legacy, state, loop, curve>>

\* train_model(paths["data"], paths["model"], paths["metrics"], algo) and the
\* lines after it, common to train and train_refresh
TrainTail(op, s, fs, algo) ==
    IF TrainModelRaises(fs)
    THEN /\ disk' = [disk EXCEPT ![s] = fs]
         /\ resp' = [op |-> op, sport |-> s, status |-> "error", algo |-> algo]
         /\ UNCHANGED state
    ELSE LET trained == train_model(fs, "model", "metrics", algo)
             w0 == [fs |-> trained, st |-> state[s]]
             w == Activate(w0, normalize_algo(algo))
         IN  /\ disk' = [disk EXCEPT ![s] = w.fs]
             /\ state' = [state EXCEPT ![s] = w.st]
             /\ resp' = IF ActivateRaises(w0, normalize_algo(algo))
                        THEN [op |-> op, sport |-> s, status |-> "error", algo |-> algo]
                        ELSE [op |-> op, sport |-> s, status |-> "trained",
                              algo |-> algo,
                              metrics |-> MetricsReport(fs.data.rows, algo)]

\* POST /train
train(s, file, algo) ==
    /\ phase = "ready"
    /\ TrainTail("train", s, [disk[s] EXCEPT !.data = Csv(file)], algo)
    /\ UNCHANGED <<phase, legacy, loop, curve>>

\* POST /train/refresh
train_refresh(s, algo) ==
    /\ phase = "ready"
    /\ TrainTail("refresh", s,
                 IF Exists(disk[s].data) THEN disk[s]
                 ELSE ensure_data_for_sport(disk[s], s, legacy),
                 algo)
    /\ UNCHANGED <<phase, legacy, loop, curve>>

\* POST /train/compare
train_compare_endpoint(s) ==
    LET fs == IF Exists(disk[s].data) THEN disk[s]
              ELSE ensure_data_for_sport(disk[s], s, legacy)
        w0 == [fs |-> train_compare(fs), st |-> state[s]]
        w == load_metrics(load_compare(w0))
    IN  /\ phase = "ready"
        /\ IF TrainModelRaises(fs)
           THEN /\ disk' = [disk EXCEPT ![s] = fs]
                /\ resp' = [op |-> "compare", sport |-> s, status |-> "error"]
                /\ UNCHANGED state
           ELSE /\ disk' = [disk EXCEPT ![s] = w.fs]
                /\ state' = [state EXCEPT ![s] = w.st]
                /\ resp' = [op |-> "compare", sport |-> s, status |-> "trained",
                            compare |-> CompareDoc(fs.data.rows)]
        /\ UNCHANGED <<phase, legacy, loop, curve>>

\* POST /ingest/statsbomb, the requests the upstream fetch answers; `rows` is
\* the dataset built from the fetched matches
ingest_statsbomb_endpoint(rows) ==
    LET s == "football"
        fs == [disk[s] EXCEPT !.data = Csv(rows)]
        trained == train_compare(train_model(fs, "model", "metrics", "logistic"))
        w0 == write_active([fs |-> trained, st |-> state[s]], "logistic")
        w == load_compare(load_metrics(load_model(w0)))
    IN  /\ phase = "ready"
        /\ s \in SPORTS
        /\ legacy' = Csv(rows)
        /\ IF TrainModelRaises(fs)
           THEN /\ disk' = [disk EXCEPT ![s] = fs]
                /\ resp' = [op |-> "ingest", sport |-> s, status |-> "error"]
                /\ UNCHANGED state
           ELSE /\ disk' = [disk EXCEPT ![s] = w.fs]
                /\ state' = [state EXCEPT ![s] = w.st]
                /\ resp' = [op |-> "ingest", sport |-> s, status |-> "ingested",
                            metrics |-> MetricsReport(rows, "logistic")]
        /\ UNCHANGED <<phase, loop, curve>>

\* POST /ingest/statsbomb when the upstream fetch fails: nothing was written
ingest_fetch_error ==
    /\ phase = "ready"
    /\ resp' = [op |-> "ingest", sport |-> "football", status |-> "error"]
    /\ UNCHANGED <<phase, disk, legacy, state, loop, curve>>

\* strengthA / strengthB of a PredictRequest: its two defaults
Strengths == {70, 75}

Next ==
    \/ Boot
    \/ Restart
    \/ \E s \in SPORTS : model_active(s)
    \/ \E s \in SPORTS : metrics_endpoint(s)
    \/ \E s \in SPORTS, model \in AlgoInputs : model_select(s, model)
    \/ \E s \in SPORTS, strengthA \in Strengths, strengthB \in Strengths :
           predict(s, strengthA, strengthB)
    \/ \E s \in SPORTS, file \in Datasets, algo \in AlgoInputs : train(s, file, algo)
    \/ \E s \in SPORTS, algo \in AlgoInputs : train_refresh(s, algo)
    \/ \E s \in SPORTS : train_compare_endpoint(s)
    \/ \E rows \in Datasets : ingest_statsbomb_endpoint(rows)
    \/ ingest_fetch_error

Spec == Init /\ [][Next]_vars

\* ------------------------------------------------------------------ claims
ArtifactPaths == {"model", "logistic", "rf"}

IsFallback(body) == body.model \notin {"logistic", "rf", "svm"}

TrainCompleted ==
    resp.op \in {"train", "refresh"} /\ resp.status = "trained"

\* C1: when a train or train/refresh of sport S with algorithm "logistic" or
\* "rf" has completed, the model held for S, which the next predict runs, is
\* the pipeline that run fitted: that algorithm on the dataset just trained on.
C1_RetrainedModelIsServed ==
    (TrainCompleted /\ resp.algo \in {"logistic", "rf"})
        => state[resp.sport].model = Pipeline(resp.metrics.fit_on, resp.algo)

\* C2: a predict of sport S returns the fallback result exactly when no model
\* artifact was ever persisted for S.
C2_FallbackIffNeverTrained ==
    resp.op = "predict"
        => (IsFallback(resp.body)
              <=> \A path \in ArtifactPaths : ~Exists(disk[resp.sport][path]))

\* C3: the algorithm identifier of a non-fallback prediction is the algorithm
\* of the pipeline that produced its probabilities (stated for the pipelines
\* this service fitted itself).
C3_ReportedAlgorithmIsModelAlgorithm ==
    (resp.op = "predict" /\ ~IsFallback(resp.body)
       /\ state[resp.sport].model \notin ForeignPipelines)
        => resp.body.model = state[resp.sport].model.clf

\* C4: a select-active request is never rejected; it leaves "rf" active when
\* "rf" was requested and "logistic" for every other identifier, in memory and
\* in the persisted selector document, and a getActive that follows returns it.
C4_Expected(requested) == IF requested = "rf" THEN "rf" ELSE "logistic"

C4_AfterSelect ==
    resp.op = "select"
        => /\ resp.status = "ok"
           /\ resp.active = C4_Expected(resp.requested)
           /\ state[resp.sport].active_model = C4_Expected(resp.requested)
           /\ disk[resp.sport].active = Json(SelectorDoc(C4_Expected(resp.requested)))

C4_GetAfterSet ==
    (resp.op = "select" /\ resp'.op = "active" /\ resp'.sport = resp.sport)
        => resp'.active = C4_Expected(resp.requested)

C4_SetActiveThenGetActive == [][C4_GetAfterSet /\ C4_AfterSelect']_vars

C4_Witness ==
    /\ resp.op = "select"
    /\ resp.requested = "svm"
    /\ resp.status = "ok"
    /\ state[resp.sport].active_model = "logistic"
    /\ disk[resp.sport].active = Json(SelectorDoc("logistic"))

\* C5: a completed compare leaves both per-algorithm artifacts, fitted on the
\* current dataset, and a comparison document whose keys are exactly "logistic"
\* and "rf"; no compare request changes the selector, in memory or on disk.
C5_Persisted ==
    (resp.op = "compare" /\ resp.status = "trained")
        => LET fs == disk[resp.sport]
           IN  /\ fs.logistic.kind = "joblib"
               /\ fs.logistic.obj.clf = "logistic"
               /\ fs.logistic.obj.fit_on = fs.data.rows
               /\ fs.rf.kind = "joblib"
               /\ fs.rf.obj.clf = "rf"
               /\ fs.rf.obj.fit_on = fs.data.rows
               /\ fs.compare.kind = "json"
               /\ fs.compare.value.t = "compare"
               /\ DOMAIN fs.compare.value.entries = {"logistic", "rf"}
               /\ \A a \in {"logistic", "rf"} :
                      /\ fs.compare.value.entries[a].model = a
                      /\ fs.compare.value.entries[a].fit_on = fs.data.rows

C5_SelectorFrame ==
    resp'.op = "compare"
        => /\ state'[resp'.sport].active_model = state[resp'.sport].active_model
           /\ disk'[resp'.sport].active = disk[resp'.sport].active

C5_ComparePersistsAndKeepsSelector == [][C5_SelectorFrame /\ C5_Persisted']_vars

C5_Witness ==
    /\ resp.op = "compare"
    /\ resp.status = "trained"
    /\ state[resp.sport].active_model = "rf"
    /\ disk[resp.sport].active = Json(SelectorDoc("rf"))

\* the document the registry should serve for sport s
ActiveMetricsDoc(s) ==
    LET fs == disk[s]
        active == state[s].active_model
    IN  IF /\ fs.compare.kind = "json"
           /\ fs.compare.value.t = "compare"
           /\ active \in DOMAIN fs.compare.value.entries
        THEN fs.compare.value.entries[active]
        ELSE IF fs.metrics.kind = "json" THEN fs.metrics.value
        ELSE None

\* C6 as claimed: after every completed operation the metrics served for S are
\* the comparison entry of the active algorithm, else the single-model
\* document, else null.
C6_ServedMetricsOrNull ==
    phase = "ready" => \A s \in SPORTS : metrics(state[s]) = ActiveMetricsDoc(s)

\* C6 as amended: the cached metrics are that document (null when there is
\* none), and GET /metrics serves it with null rendered as an empty object.
C6_ServedMetricsOrEmpty ==
    phase = "ready"
        => /\ \A s \in SPORTS : state[s].metrics_cache = ActiveMetricsDoc(s)
           /\ resp.op = "metrics"
                => resp.body = IF ActiveMetricsDoc(resp.sport) = None
                               THEN EmptyObject
                               ELSE ActiveMetricsDoc(resp.sport)

C6_Witness ==
    /\ resp.op = "metrics"
    /\ resp.body # EmptyObject
    /\ disk[resp.sport].compare.kind = "json"
    /\ disk[resp.sport].metrics.kind = "json"
    /\ state[resp.sport].active_model = "rf"
    /\ resp.body = disk[resp.sport].compare.value.entries["rf"]
    /\ resp.body # disk[resp.sport].metrics.value

\* C7: a training request on a dataset that cannot be split by label fails and
\* leaves every artifact, document and selector of the sport, and its entry in
\* memory, as they were.
TrainingOps == {"train", "refresh", "compare", "ingest"}

C7_Step ==
    (resp'.op \in TrainingOps /\ SplitRaises(disk'[resp'.sport].data.rows))
        => /\ resp'.status = "error"
           /\ state' = state
           /\ \A path \in {"model", "logistic", "rf", "metrics", "compare", "active"} :
                  disk'[resp'.sport][path] = disk[resp'.sport][path]

C7_FailedSplitWritesNothing == [][C7_Step]_vars

C7_Witness ==
    /\ resp.op = "train"
    /\ resp.status = "error"
    /\ SplitRaises(disk[resp.sport].data.rows)
    /\ Exists(disk[resp.sport].model)
    /\ Exists(disk[resp.sport].metrics)
    /\ state[resp.sport].model # None

\* C8: a predict on a sport with no model declares home_win when
\* strength_a >= strength_b and away_win otherwise, gives that outcome the
\* highest probability, which is the confidence, has probabilities summing to
\* one, and a model identifier that is neither "logistic" nor "rf".
C8_FallbackShape ==
    (/\ resp.op = "predict"
     /\ \/ state[resp.sport].model = None
        \/ \A path \in ArtifactPaths : ~Exists(disk[resp.sport][path]))
        => LET b == resp.body
           IN  /\ b.model \notin {"logistic", "rf"}
               /\ b.prediction = IF resp.strengthA >= resp.strengthB
                                 THEN "home_win" ELSE "away_win"
               /\ b.confidence = b.probabilities[b.prediction]
               /\ \A c \in Labels \ {b.prediction} : b.probabilities[c] < b.confidence
               /\ b.probabilities["home_win"] + b.probabilities["draw"]
                      + b.probabilities["away_win"] = b.den

C8_Witness ==
    /\ resp.op = "predict"
    /\ \A path \in ArtifactPaths : ~Exists(disk[resp.sport][path])
    /\ resp.strengthA = resp.strengthB
    /\ resp.body.prediction = "home_win"

ServedByModel == resp.op = "predict" /\ state[resp.sport].model # None

C9_ArgMax(b) ==
    /\ b.prediction \in DOMAIN b.probabilities
    /\ \A c \in DOMAIN b.probabilities :
           b.probabilities[c] <= b.probabilities[b.prediction]
    /\ b.confidence = b.probabilities[b.prediction]

\* C9 as claimed: the prediction is a class of maximum probability, the
\* confidence its probability, and the score is p(home_win) - p(away_win), or 0
\* when one of the two classes is not in the label set.
C9_ScoreZeroWhenClassAbsent ==
    ServedByModel
        => LET b == resp.body
           IN  /\ C9_ArgMax(b)
               /\ b.score = IF {"home_win", "away_win"} \subseteq DOMAIN b.probabilities
                            THEN b.probabilities["home_win"] - b.probabilities["away_win"]
                            ELSE 0

\* C9 as amended: a class missing from the label set counts as probability 0,
\* so the score is -p(away_win) without home_win and p(home_win) without
\* away_win.
C9_ScoreAbsentClassCountsZero ==
    ServedByModel
        => LET b == resp.body
               classes == DOMAIN b.probabilities
           IN  /\ C9_ArgMax(b)
               /\ classes = state[resp.sport].model.classes
               /\ ("home_win" \in classes /\ "away_win" \in classes)
                    => b.score = b.probabilities["home_win"] - b.probabilities["away_win"]
               /\ ("home_win" \notin classes /\ "away_win" \in classes)
                    => b.score = 0 - b.probabilities["away_win"]
               /\ ("home_win" \in classes /\ "away_win" \notin classes)
                    => b.score = b.probabilities["home_win"]
               /\ ("home_win" \notin classes /\ "away_win" \notin classes)
                    => b.score = 0

C9_Witness ==
    /\ ServedByModel
    /\ "home_win" \notin DOMAIN resp.body.probabilities
    /\ resp.body.score < 0

\* C10: booting with a selector document that is missing, does not parse or
\* cannot be decoded ends without an error and with "logistic" active (the
\* other documents being readable).
C10_UnreadableSelectorRecovered ==
    \A s \in SPORTS :
        (/\ resp.op = "boot"
         /\ disk[s].active.kind \in {"absent", "badjson", "badbytes"}
         /\ disk[s].metrics.kind # "badbytes"
         /\ disk[s].compare.kind # "badbytes")
            => /\ resp.status = "ok"
               /\ state[s].active_model = "logistic"

\* ------------------------------------------------- training.py: the curves
\* _downsample(values, max_points=30)
MaxPoints == 30

\* longest curve given to roc_data / pr_data
MaxLen == 61

\* values[::step], with indices from 1
Stride(values, step) ==
    [i \in 1..((Len(values) - 1) \div step + 1) |-> values[(i - 1) * step + 1]]

\* float(v) leaves the numbers of fpr.tolist() as they are
downsample(values, max_points) ==
    IF Len(values) <= max_points THEN values
    ELSE LET step == Max(1, Len(values) \div max_points)
             sampled == Stride(values, step)
         IN  IF sampled[Len(sampled)] # values[Len(values)]
             THEN Append(sampled, values[Len(values)])
             ELSE sampled

\* a coordinate sequence of n points that steps from 0 to 1 after `low` points
StepCurve(n, low) == [i \in 1..n |-> IF i <= low THEN 0 ELSE 1]

BreakPoints(n) == {0, 1, n \div 2, n - 1, n} \cap 0..n

CurveInit ==
    /\ phase = "ready"
    /\ disk = [s \in SPORTS |-> boot_sport([fs |-> [data |-> Absent, model |-> Absent,
                                                    logistic |-> Absent, rf |-> Absent,
                                                    metrics |-> Absent, compare |-> Absent,
                                                    active |-> Absent],
                                            st |-> InitialState], s, Absent).fs]
    /\ legacy = Absent
    /\ state = [s \in SPORTS |-> InitialState]
    /\ resp = [op |-> "none"]
    /\ loop = IdleLoop
    /\ \E n \in 0..MaxLen :
         \E a \in BreakPoints(n), b \in BreakPoints(n) :
            curve = [op |-> "curve", x |-> StepCurve(n, a), y |-> StepCurve(n, b)]

\* roc_data, one class: fpr, tpr = roc_curve(...)
roc_data ==
    /\ curve.op = "curve"
    /\ curve' = [op |-> "roc", x |-> curve.x, y |-> curve.y,
                 fpr |-> downsample(curve.x, MaxPoints),
                 tpr |-> downsample(curve.y, MaxPoints)]
    /\ UNCHANGED <<phase, disk, legacy, state, resp, loop>>

\* pr_data, one class: precision, recall = precision_recall_curve(...)
pr_data ==
    /\ curve.op = "curve"
    /\ curve' = [op |-> "pr", x |-> curve.x, y |-> curve.y,
                 precision |-> downsample(curve.x, MaxPoints),
                 recall |-> downsample(curve.y, MaxPoints)]
    /\ UNCHANGED <<phase, disk, legacy, state, resp, loop>>

CurveNext == roc_data \/ pr_data

CurveSpec == CurveInit /\ [][CurveNext]_vars

\* the first coordinate sequence of a finished call, and its input
CurveOut == IF curve.op = "roc" THEN curve.fpr ELSE curve.precision

CurveOut2 == IF curve.op = "roc" THEN curve.tpr ELSE curve.recall

IsStrideOf(out, in) ==
    \E step \in 1..Len(in) :
        \A i \in 1..Len(out) :
            \/ out[i] = in[Len(in)] /\ i = Len(out)
            \/ (i - 1) * step + 1 <= Len(in) /\ out[i] = in[(i - 1) * step + 1]

C11_Bounded(out, in) ==
    /\ Len(out) <= MaxPoints
    /\ Len(in) <= MaxPoints => out = in
    /\ Len(in) > MaxPoints => out[Len(out)] = in[Len(in)] /\ IsStrideOf(out, in)

\* C11: every downsampled sequence has at most 30 points: an input of at most
\* 30 points is returned as it is, a longer one as a fixed-stride subsample of
\* at most 30 points that ends with the input's final point.
C11_DownsampleAtMost30 ==
    curve.op \in {"roc", "pr"}
        => C11_Bounded(CurveOut, curve.x) /\ C11_Bounded(CurveOut2, curve.y)

\* C15: the two coordinate sequences of a curve stay paired: they have the
\* same length and position i of both is the same point of the input curve.
C15_CoordinatesStayPaired ==
    curve.op \in {"roc", "pr"}
        => /\ Len(CurveOut) = Len(CurveOut2)
           /\ \A i \in 1..Len(CurveOut) :
                  \E j \in 1..Len(curve.x) :
                      CurveOut[i] = curve.x[j] /\ CurveOut2[i] = curve.y[j]

\* C13: the pipeline a train or train/refresh fits is one of the two arms,
\* scaling with the linear classifier or passthrough with the forest, and the
\* report's algorithm identifier names the classifier that was fitted.
C13_FittedArmIsConsistent ==
    TrainCompleted
        => LET fitted == disk[resp.sport].model.obj
           IN  /\ <<fitted.prep, fitted.clf>>
                     \in {<<"scale", "logistic">>, <<"pass", "rf">>}
               /\ resp.metrics.model = fitted.clf

MaxTasks == 2

\* the models directory is empty at import, or holds what POST /train/compare
\* left there before the service was started again
LoopWorlds ==
    LET empty == [fs |-> [data |-> Absent, model |-> Absent, logistic |-> Absent,
                          rf |-> Absent, metrics |-> Absent, compare |-> Absent,
                          active |-> Absent],
                  st |-> InitialState]
        booted(s) == boot_sport(empty, s, Absent)
        compared(s) == [fs |-> train_compare(booted(s).fs), st |-> InitialState]
    IN  { [s \in SPORTS |-> booted(s)],
          [s \in SPORTS |-> boot_sport(compared(s), s, Absent)] }

LoopInit ==
    /\ phase = "ready"
    /\ legacy = Absent
    /\ \E ws \in LoopWorlds :
          /\ disk = [s \in SPORTS |-> ws[s].fs]
          /\ state = [s \in SPORTS |-> ws[s].st]
    /\ resp = [op |-> "none"]
    /\ loop = IdleLoop
    /\ curve = NoCurve

\* the loop starts the handler of a new request when no handler is running
Accept(task) ==
    /\ phase = "ready"
    /\ loop.current = 0
    /\ Len(loop.tasks) < MaxTasks
    /\ loop' = [current |-> Len(loop.tasks) + 1, tasks |-> Append(loop.tasks, task)]
    /\ UNCHANGED <<phase, disk, legacy, state, resp, curve>>

request_predict(s) ==
    Accept([op |-> "predict", pc |-> "read_model", sport |-> s])

request_model_select(s, model) ==
    Accept([op |-> "select", pc |-> "write_active", sport |-> s, model |-> model])

request_train(s, file, algo) ==
    Accept([op |-> "train", pc |-> "read_upload", sport |-> s,
            file |-> file, algo |-> algo])

\* the loop resumes a suspended handler when no handler is running
Resume(i) ==
    /\ loop.current = 0
    /\ i \in 1..Len(loop.tasks)
    /\ loop' = [loop EXCEPT !.current = i]
    /\ UNCHANGED <<phase, disk, legacy, state, resp, curve>>

\* mutant: the handlers also give the loop back after write_active
Suspends_after_write_active(op, pc) ==
    \/ op = "train" /\ pc = "read_upload"
    \/ pc = "write_active"

\* the statements after which a handler gives the loop back: the only await
\* of the three handlers is `content = await file.read()`
Suspends(op, pc) == op = "train" /\ pc = "read_upload"

RemoveAt(seq, i) ==
    [k \in 1..(Len(seq) - 1) |-> IF k < i THEN seq[k] ELSE seq[k + 1]]

\* the running handler has executed the statement at its pc
Advance(i, pc) ==
    LET t == loop.tasks[i]
    IN  loop' = IF pc = "done"
                THEN [current |-> 0, tasks |-> RemoveAt(loop.tasks, i)]
                ELSE [current |-> IF Suspends(t.op, t.pc) THEN 0 ELSE i,
                      tasks |-> [loop.tasks EXCEPT ![i].pc = pc]]

SetWorld(s, w) ==
    /\ disk' = [disk EXCEPT ![s] = w.fs]
    /\ state' = [state EXCEPT ![s] = w.st]

\* one statement of predict
run_predict ==
    /\ loop.current # 0
    /\ LET i == loop.current
           t == loop.tasks[i]
       IN  /\ t.op = "predict"
           /\ \/ /\ t.pc = "read_model"
                 /\ loop' = [loop EXCEPT !.tasks[i] =
                                [op |-> "predict", pc |-> "return", sport |-> t.sport,
                                 model |-> state[t.sport].model]]
                 /\ UNCHANGED resp
              \/ /\ t.pc = "return"
                 /\ resp' = [op |-> "predict", sport |-> t.sport, status |-> "ok",
                             served |-> t.model,
                             active |-> state[t.sport].active_model]
                 /\ Advance(i, "done")
    /\ UNCHANGED <<phase, disk, legacy, state, curve>>

\* the statements from write_active to the return, common to model_select
\* and train
run_activate(i, name) ==
    LET t == loop.tasks[i]
        s == t.sport
    IN  \/ /\ t.pc = "write_active"
           /\ SetWorld(s, write_active(World(s), name))
           /\ Advance(i, "load_model")
           /\ UNCHANGED resp
        \/ /\ t.pc = "load_model"
           /\ SetWorld(s, load_model(World(s)))
           /\ Advance(i, "load_metrics")
           /\ UNCHANGED resp
        \/ /\ t.pc = "load_metrics"
           /\ SetWorld(s, load_metrics(World(s)))
           /\ IF LoadMetricsRaises(World(s))
              THEN /\ resp' = [op |-> t.op, sport |-> s, status |-> "error"]
                   /\ Advance(i, "done")
              ELSE /\ UNCHANGED resp
                   /\ Advance(i, "return")
        \/ /\ t.pc = "return"
           /\ resp' = [op |-> t.op, sport |-> s,
                       status |-> IF t.op = "train" THEN "trained" ELSE "ok",
                       active |-> state[s].active_model]
           /\ Advance(i, "done")
           /\ UNCHANGED <<disk, state>>

\* one statement of model_select
run_model_select ==
    /\ loop.current # 0
    /\ loop.tasks[loop.current].op = "select"
    /\ run_activate(loop.current, normalize_algo(loop.tasks[loop.current].model))
    /\ UNCHANGED <<phase, legacy, curve>>

\* one statement of train; train_model writes the artifact, then the report
run_train ==
    /\ loop.current # 0
    /\ LET i == loop.current
           t == loop.tasks[i]
           s == t.sport
       IN  /\ t.op = "train"
           /\ \/ /\ t.pc = "read_upload"
                 /\ Advance(i, "write_data")
                 /\ UNCHANGED <<disk, state, resp>>
              \/ /\ t.pc = "write_data"
                 /\ disk' = [disk EXCEPT ![s].data = Csv(t.file)]
                 /\ Advance(i, "dump_model")
                 /\ UNCHANGED <<state, resp>>
              \/ /\ t.pc = "dump_model"
                 /\ IF TrainModelRaises(disk[s])
                    THEN /\ resp' = [op |-> "train", sport |-> s, status |-> "error"]
                         /\ Advance(i, "done")
                         /\ UNCHANGED <<disk, state>>
                    ELSE /\ disk' = [disk EXCEPT ![s].model =
                                 train_model(disk[s], "model", "metrics", t.algo).model]
                         /\ Advance(i, "write_metrics")
                         /\ UNCHANGED <<state, resp>>
              \/ /\ t.pc = "write_metrics"
                 /\ disk' = [disk EXCEPT ![s] =
                                 train_model(disk[s], "model", "metrics", t.algo)]
                 /\ Advance(i, "write_active")
                 /\ UNCHANGED <<state, resp>>
              \/ /\ t.pc \in {"write_active", "load_model", "load_metrics", "return"}
                 /\ run_activate(i, normalize_algo(t.algo))
    /\ UNCHANGED <<phase, legacy, curve>>

\* the files uploaded to POST /train
Uploads == {d \in Datasets : d.draw \in {0, MaxClassRows}}

LoopNext ==
    \/ \E s \in SPORTS : request_predict(s)
    \/ \E s \in SPORTS, model \in AlgoInputs : request_model_select(s, model)
    \/ \E s \in SPORTS, file \in Uploads, algo \in AlgoInputs : request_train(s, file, algo)
    \/ \E i \in 1..MaxTasks : Resume(i)
    \/ run_predict
    \/ run_model_select
    \/ run_train

LoopSpec == LoopInit /\ [][LoopNext]_vars

\* the in-memory model and metrics are the ones load_model and load_metrics
\* give for the selector in memory
Settled(s) ==
    /\ ~LoadMetricsRaises(load_model(World(s)))
    /\ load_metrics(load_model(World(s))).st = state[s]

\* the handler has written something and has not yet reloaded everything
InSection(t) ==
    \/ t.op = "select" /\ t.pc \in {"load_model", "load_metrics"}
    \/ t.op = "train" /\ t.pc \in {"dump_model", "write_metrics", "write_active",
                                    "load_model", "load_metrics"}

====
